---- MODULE Spec2Model ----
(***************************************************************************)
(* A model of src/src/EventEmitter.js (EventEmitter v3.0.0).               *)
(*                                                                         *)
(* The registry is the object's two fields, _listeners and _maxListeners.  *)
(* Listeners are caller code: a listener that is running may call any      *)
(* method of the emitter, return, or throw, so the model keeps the call    *)
(* stack of the dispatch loops (eachListener called by emit) and of the    *)
(* listeners they are running.  Methods that run no listener are one       *)
(* action each.  Event-type names are non-empty strings (@param {String}). *)
(* The scope argument only chooses the receiver of listener.apply and has  *)
(* no effect on the registry; it is not part of the state.                 *)
(***************************************************************************)
EXTENDS Integers, Sequences, FiniteSets, TLC

\* ---------------------------------------------------------------- bounds
Types == {"newListener", "x"}
\* The event types of the dispatch specification.
DispatchTypes == {"x"}
Handlers == {"h1", "h2"}
\* Subscriptions ever created in one run (each new Event gets a fresh id).
MaxSubs == 3
\* Registry calls made by running listeners within one top-level call.
MaxNested == 1
\* Listener invocations recorded (and allowed) within one top-level call.
MaxLog == MaxSubs + 1
\* Arguments a caller gives to setMaxListeners.
MaxChoices == {0, 2}
\* Subscriptions created in one run of the leak-warning specification.
MaxWarnSubs == 11

\* Subscriptions created in one run of the limit-setting specification.
MaxLimitSubs == 4

\* this._maxListeners = 10 in the constructor.
DefaultMaxListeners == 10

VARIABLES
    _listeners,     \* this._listeners: type -> [items, warned, warns, warnLen]
    _maxListeners,  \* this._maxListeners
    stack,          \* call stack: dispatch loops, addListener calls, listeners
    nextId,         \* identity of the next Event object created
    top,            \* the current (or last) top-level call and its outcome
    log,            \* listener invocations of the current top-level call:
                    \* the Event, the arguments received, how it ended
    nested,         \* registry calls made by listeners in that call
    fired           \* ids of one-shot Events invoked once / more than once

vars == <<_listeners, _maxListeners, stack, nextId, top, log, nested, fired>>

\* ------------------------------------------------------------ values
\* new Event(type, listener, scope, once, instance); id is the object's identity.
Event(id, type, listener, once) ==
    [id |-> id, type |-> type, listener |-> listener, once |-> once]

NoEvent == Event(0, "", "", FALSE)

\* The second argument of emit: omitted, an array, or (from addListener,
\* which calls emit('newListener', type, ...)) the type string itself.
Undefined == [kind |-> "undefined", val |-> <<>>]
ArrayArg(v) == [kind |-> "array", val |-> v]
StringArg(s) == [kind |-> "string", val |-> <<s>>]
ArgChoices == {Undefined}

\* A lenient apply, which would take any value as the argument list.
ApplyThrows_never(args) == FALSE

\* this.listener.apply(this.scope || this, args || []): Function.prototype.apply
\* throws a TypeError when its argument list is a primitive that is not
\* null or undefined; a non-empty string is such a value.
ApplyThrows(args) == args.kind = "string"

\* The argument list the listener receives: args || [].
Received(args) == IF args.kind = "undefined" THEN <<>> ELSE args.val

Has(L, t) == t \in DOMAIN L

\* this._listeners[type] = [] : a fresh array, no warned property yet.
\* warns and warnLen record the console.warn calls made for this array.
NewArray == [items |-> <<>>, warned |-> FALSE, warns |-> 0, warnLen |-> 0]

Put(L, t, a) == [u \in (DOMAIN L) \cup {t} |-> IF u = t THEN a ELSE L[u]]

\* delete this._listeners[type]
Delete(L, t) == [u \in (DOMAIN L) \ {t} |-> L[u]]

EmptyRegistry == [u \in {} |-> NewArray]

ItemsOf(L, t) == IF Has(L, t) THEN L[t].items ELSE <<>>

\* The Events of every array of the registry, type by type.
AllItems(L) == ItemsOf(L, "newListener") \o ItemsOf(L, "x")

\* A removal that fills the hole with the last element.
Splice_moveLast(s, index) ==
    [k \in 1..(Len(s) - 1) |-> IF k = index + 1 THEN s[Len(s)] ELSE s[k]]

\* array.splice(index, 1), index counted from 0
Splice(s, index) ==
    [k \in 1..(Len(s) - 1) |-> IF k <= index THEN s[k] ELSE s[k + 1]]

\* EventEmitter.prototype.listeners
listeners(L, t) ==
    IF Has(L, t) THEN [found |-> TRUE, items |-> L[t].items]
                 ELSE [found |-> FALSE, items |-> <<>>]

\* ------------------------------------------------------------ frames
\* kind "each":    an eachListener loop run by emit; i is its index, args the
\*                 argument of emit; while live the loop's array
\*                 (possibleListeners) is still this._listeners[type], else
\*                 arr holds the contents of the array it kept.
\* kind "add":     an addListener(type, ...) call waiting for its
\*                 emit('newListener', type, ...) to return.
\* kind "handler": the listener of Event ev is running.
Frame(kind, type, args, i, live, arr, ev) ==
    [kind |-> kind, type |-> type, args |-> args, i |-> i,
     live |-> live, arr |-> arr, ev |-> ev]

EachFrame(type, args) == Frame("each", type, args, 0, TRUE, <<>>, NoEvent)
AddFrame(type) == Frame("add", type, Undefined, 0, FALSE, <<>>, NoEvent)
\* i of a handler frame is the place of its invocation in log.
HandlerFrame(ev, k) == Frame("handler", ev.type, Undefined, k, FALSE, <<>>, ev)

Top == stack[Len(stack)]
Pop(s) == SubSeq(s, 1, Len(s) - 1)

\* The array an eachListener loop walks.
ArrayOf(L, f) == IF f.live THEN ItemsOf(L, f.type) ELSE f.arr

\* After this._listeners[type] is deleted (or this._listeners replaced), the
\* loops that hold that array keep walking it; nothing mutates it any more.
Detach(s, L, L2) ==
    [k \in 1..Len(s) |->
        IF s[k].kind = "each" /\ s[k].live /\ ~Has(L2, s[k].type)
        THEN [s[k] EXCEPT !.live = FALSE, !.arr = ItemsOf(L, s[k].type)]
        ELSE s[k]]

\* ------------------------------------------------- pure parts of methods
\* removeListener's scan: eachListener (lines 64-88) walking items from index
\* i with the callback of lines 158-163, which splices a matching entry out
\* and returns undefined, so the index is not adjusted after a removal.
RECURSIVE SpliceScan(_, _, _)
SpliceScan(items, listener, i) ==
    IF i >= Len(items) THEN items
    ELSE IF items[i + 1].listener = listener
         THEN SpliceScan(Splice(items, i), listener, i + 1)
         ELSE SpliceScan(items, listener, i + 1)

\* removeListener up to (not including) the deletion of an emptied array.
Scanned(L, t, h) ==
    IF Has(L, t) THEN [L EXCEPT ![t].items = SpliceScan(@, h, 0)] ELSE L

\* removeListener without the deletion of an emptied array.
removeListener_keepsEmpty(L, t, h) == Scanned(L, t, h)

\* removeListener that deletes the type's array whether or not it is empty.
removeListener_dropsType(L, t, h) ==
    LET S == Scanned(L, t, h)
    IN  IF Has(S, t) THEN Delete(S, t) ELSE S

\* EventEmitter.prototype.removeListener: the registry it leaves.
removeListener(L, t, h) ==
    LET S == Scanned(L, t, h)
    IN  IF Has(S, t) /\ Len(S[t].items) = 0 THEN Delete(S, t) ELSE S

\* A value is truthy: the only falsy type argument is an omitted one.
Omitted == ""
Truthy(t) == t # Omitted

\* removeAllListeners that does nothing when no type is given.
removeAllListeners_typedOnly(L, t) ==
    IF Truthy(t) /\ Has(L, t) THEN Delete(L, t) ELSE L

\* EventEmitter.prototype.removeAllListeners: the registry it leaves.
removeAllListeners(L, t) ==
    IF Truthy(t) /\ Has(L, t) THEN Delete(L, t)
    ELSE IF ~Truthy(t) THEN EmptyRegistry
    ELSE L

\* Registration that puts the new Event at the front of the array.
Pushed_front(L, t, ev) ==
    LET L0 == IF Has(L, t) THEN L ELSE Put(L, t, NewArray)
    IN  [L0 EXCEPT ![t].items = <<ev>> \o @]

\* addListener lines 100-106: create the array if needed, push the new Event.
Pushed(L, t, ev) ==
    LET L0 == IF Has(L, t) THEN L ELSE Put(L, t, NewArray)
    IN  [L0 EXCEPT ![t].items = Append(@, ev)]

\* A check that compares the count with the limit even when the limit is 0.
WarnCheck_zeroIsALimit(L, t, max) ==
    IF ~Has(L, t) THEN [L |-> L, threw |-> TRUE]
    ELSE IF ~L[t].warned /\ Len(L[t].items) > max
         THEN [L |-> [L EXCEPT ![t].warned = TRUE,
                               ![t].warns = @ + 1,
                               ![t].warnLen = Len(L[t].items)],
               threw |-> FALSE]
         ELSE [L |-> L, threw |-> FALSE]

\* addListener lines 114-122.  With a non-zero limit the condition reads
\* this._listeners[type].warned, a TypeError if the array is gone.
WarnCheck(L, t, max) ==
    IF max = 0 THEN [L |-> L, threw |-> FALSE]
    ELSE IF ~Has(L, t) THEN [L |-> L, threw |-> TRUE]
    ELSE IF ~L[t].warned /\ Len(L[t].items) > max
         THEN [L |-> [L EXCEPT ![t].warned = TRUE,
                               ![t].warns = @ + 1,
                               ![t].warnLen = Len(L[t].items)],
               threw |-> FALSE]
         ELSE [L |-> L, threw |-> FALSE]

\* fire without the one-shot removal.
fire_never(ev) == [removes |-> FALSE, result |-> "undefined"]

\* Event.prototype.fire after the listener has returned (lines 50-54): a
\* one-shot Event removes its listener and returns false, any other returns
\* undefined.
fire(ev) ==
    IF ev.once THEN [removes |-> TRUE, result |-> "false"]
               ELSE [removes |-> FALSE, result |-> "undefined"]

\* eachListener lines 77-82 and the loop's i += 1, for a callback result
\* other than true (emit's callback never returns true).
Advance(i, result) == IF result = "false" THEN (i - 1) + 1 ELSE i + 1

\* ------------------------------------------------------------ bookkeeping
TopLevel == stack = <<>>
InHandler == stack # <<>> /\ Top.kind = "handler"

\* A method is called by the program (no call in progress) or by the
\* listener that is running.
CanCall == IF TopLevel THEN TRUE ELSE InHandler /\ Len(nested) < MaxNested

\* sub is the id of the Event the call creates (0: none); before is the
\* type's array when the call is made (every array's Events for a call
\* without a type).
CallRecord(op, t, h, o, sub, a, outcome) ==
    [op |-> op, type |-> t, listener |-> h, once |-> o, sub |-> sub, args |-> a,
     before |-> IF Truthy(t) THEN ItemsOf(_listeners, t) ELSE AllItems(_listeners),
     outcome |-> outcome]

NoCall == [op |-> "none", type |-> "", listener |-> "", once |-> FALSE, sub |-> 0,
           args |-> Undefined, before |-> <<>>, outcome |-> "returned"]

Called(op, t, h, o, a, outcome) ==
    IF TopLevel
    THEN /\ top' = CallRecord(op, t, h, o,
                              IF op = "addListener" THEN nextId ELSE 0, a, outcome)
         /\ log' = <<>>
         /\ nested' = <<>>
    ELSE /\ nested' = Append(nested, [by |-> Top.ev.id, op |-> op, type |-> t,
                                      listener |-> h, once |-> o])
         /\ UNCHANGED <<top, log>>

\* The call stack s has unwound to s2: the top-level call is over when s2 is empty.
Finished(s2, outcome) ==
    top' = IF s2 = <<>> THEN [top EXCEPT !.outcome = outcome] ELSE top

\* An exception propagates into the callers s.  eachListener, emit, fire and
\* addListener have no try/catch; a listener that called the method may
\* catch the exception and go on, or let it through.
ExcTargets(s) ==
    {SubSeq(s, 1, k) : k \in {j \in 1..Len(s) : s[j].kind = "handler"}} \cup {<<>>}

Raise(s) ==
    \E s2 \in ExcTargets(s) :
        /\ stack' = s2
        /\ Finished(s2, "threw")

\* ---------------------------------------------------------------- actions
Init ==
    /\ _listeners = EmptyRegistry
    /\ _maxListeners = DefaultMaxListeners
    /\ stack = <<>>
    /\ nextId = 1
    /\ top = NoCall
    /\ log = <<>>
    /\ nested = <<>>
    /\ fired = [once |-> {}, again |-> {}]

\* EventEmitter.prototype.addListener
AddListener(t, h, o) ==
    /\ CanCall
    /\ nextId' = nextId + 1
    /\ LET L1 == Pushed(_listeners, t, Event(nextId, t, h, o))
       IN  IF Has(L1, "newListener")
           THEN \* this.emit('newListener', type, listener, scope, once)
                /\ _listeners' = L1
                /\ stack' = stack \o <<AddFrame(t), EachFrame("newListener", StringArg(t))>>
                /\ Called("addListener", t, h, o, Undefined, "running")
           ELSE \* eachListener finds no 'newListener' property: emit returns
                /\ _listeners' = WarnCheck(L1, t, _maxListeners).L
                /\ stack' = stack
                /\ Called("addListener", t, h, o, Undefined, "returned")
    /\ UNCHANGED <<_maxListeners, fired>>

\* EventEmitter.prototype.on = EventEmitter.prototype.addListener
On(t, h) == AddListener(t, h, FALSE)

\* EventEmitter.prototype.once
Once(t, h) == AddListener(t, h, TRUE)

\* EventEmitter.prototype.removeListener
RemoveListener(t, h) ==
    /\ CanCall
    /\ _listeners' = removeListener(_listeners, t, h)
    /\ stack' = Detach(stack, Scanned(_listeners, t, h), _listeners')
    /\ Called("removeListener", t, h, FALSE, Undefined, "returned")
    /\ UNCHANGED <<_maxListeners, nextId, fired>>

\* EventEmitter.prototype.removeAllListeners
RemoveAllListeners(t) ==
    /\ CanCall
    /\ _listeners' = removeAllListeners(_listeners, t)
    /\ stack' = Detach(stack, _listeners, _listeners')
    /\ Called("removeAllListeners", t, "", FALSE, Undefined, "returned")
    /\ UNCHANGED <<_maxListeners, nextId, fired>>

\* EventEmitter.prototype.setMaxListeners
SetMaxListeners(n) ==
    /\ CanCall
    /\ _maxListeners' = n
    /\ Called("setMaxListeners", "", "", FALSE, Undefined, "returned")
    /\ UNCHANGED <<_listeners, stack, nextId, fired>>

\* EventEmitter.prototype.emit: enters eachListener, which loops only if the
\* type has an array.
Emit(t, a) ==
    /\ CanCall
    /\ IF Has(_listeners, t)
       THEN /\ stack' = Append(stack, EachFrame(t, a))
            /\ Called("emit", t, "", FALSE, a, "running")
       ELSE /\ stack' = stack
            /\ Called("emit", t, "", FALSE, a, "returned")
    /\ UNCHANGED <<_listeners, _maxListeners, nextId, fired>>

\* eachListener line 75 calling emit's callback, Event.prototype.fire line 48:
\* the listener of possibleListeners[i] starts running.
Fire ==
    /\ stack # <<>> /\ Top.kind = "each"
    /\ Top.i < Len(ArrayOf(_listeners, Top))
    /\ ~ApplyThrows(Top.args)
    /\ Len(log) < MaxLog
    /\ LET ev == ArrayOf(_listeners, Top)[Top.i + 1]
       IN  /\ stack' = Append(stack, HandlerFrame(ev, Len(log) + 1))
           /\ log' = Append(log, [ev |-> ev, args |-> Received(Top.args),
                                  end |-> "running"])
           /\ fired' = IF ~ev.once THEN fired
                       ELSE IF ev.id \in fired.once
                            THEN [fired EXCEPT !.again = @ \cup {ev.id}]
                            ELSE [fired EXCEPT !.once = @ \cup {ev.id}]
    /\ UNCHANGED <<_listeners, _maxListeners, nextId, top, nested>>

\* Event.prototype.fire line 48 when apply rejects the argument list: the
\* TypeError leaves fire, eachListener and emit.
FireTypeError ==
    /\ stack # <<>> /\ Top.kind = "each"
    /\ Top.i < Len(ArrayOf(_listeners, Top))
    /\ ApplyThrows(Top.args)
    /\ Raise(Pop(stack))
    /\ UNCHANGED <<_listeners, _maxListeners, nextId, log, nested, fired>>

\* The listener returns: fire lines 51-54 (a one-shot Event removes its
\* listener and returns false), then eachListener lines 77-82 and i += 1.
HandlerReturn ==
    /\ InHandler
    /\ LET ev == Top.ev
           s1 == Pop(stack)
           r  == fire(ev)
           s2 == [s1 EXCEPT ![Len(s1)].i = Advance(@, r.result)]
       IN  IF r.removes
           THEN /\ _listeners' = removeListener(_listeners, ev.type, ev.listener)
                /\ stack' = Detach(s2, Scanned(_listeners, ev.type, ev.listener),
                                   _listeners')
           ELSE /\ _listeners' = _listeners
                /\ stack' = s2
    /\ log' = [log EXCEPT ![Top.i].end = "returned"]
    /\ UNCHANGED <<_maxListeners, nextId, top, nested, fired>>

\* A dispatch loop that catches what a listener throws and goes on.
HandlerThrow_caught ==
    /\ InHandler
    /\ stack' = [Pop(stack) EXCEPT ![Len(stack) - 1].i = @ + 1]
    /\ log' = [log EXCEPT ![Top.i].end = "threw"]
    /\ UNCHANGED <<_listeners, _maxListeners, nextId, top, nested, fired>>

\* The listener throws: the exception leaves fire, eachListener and emit.
HandlerThrow ==
    /\ InHandler
    /\ Raise(Pop(Pop(stack)))
    /\ log' = [log EXCEPT ![Top.i].end = "threw"]
    /\ UNCHANGED <<_listeners, _maxListeners, nextId, nested, fired>>

\* eachListener's loop ends (line 74 fails) and emit returns to its caller;
\* when the caller is addListener, lines 114-125 follow.
EachDone ==
    /\ stack # <<>> /\ Top.kind = "each"
    /\ Top.i >= Len(ArrayOf(_listeners, Top))
    /\ LET s1 == Pop(stack)
       IN  IF s1 # <<>> /\ s1[Len(s1)].kind = "add"
           THEN LET r == WarnCheck(_listeners, s1[Len(s1)].type, _maxListeners)
                IN  /\ _listeners' = r.L
                    /\ IF r.threw THEN Raise(Pop(s1))
                       ELSE /\ stack' = Pop(s1)
                            /\ Finished(Pop(s1), "returned")
           ELSE /\ _listeners' = _listeners
                /\ stack' = s1
                /\ Finished(s1, "returned")
    /\ UNCHANGED <<_maxListeners, nextId, log, nested, fired>>

\* Dispatch with re-entrant listeners, on one event type.
Next ==
    \/ \E t \in DispatchTypes, h \in Handlers : nextId <= MaxSubs /\ On(t, h)
    \/ \E t \in DispatchTypes, h \in Handlers : nextId <= MaxSubs /\ Once(t, h)
    \/ \E t \in DispatchTypes, h \in Handlers : RemoveListener(t, h)
    \/ \E t \in DispatchTypes \cup {Omitted} : RemoveAllListeners(t)
    \/ \E t \in DispatchTypes, a \in ArgChoices : Emit(t, a)
    \/ Fire
    \/ HandlerReturn
    \/ HandlerThrow
    \/ EachDone

Spec == Init /\ [][Next]_vars

\* The program's calls on every type, 'newListener' included; listeners
\* return or throw.
NextNL ==
    \/ \E t \in Types, h \in Handlers : TopLevel /\ nextId <= MaxSubs /\ On(t, h)
    \/ \E t \in Types, h \in Handlers : TopLevel /\ nextId <= MaxSubs /\ Once(t, h)
    \/ \E t \in Types, h \in Handlers : TopLevel /\ RemoveListener(t, h)
    \/ \E t \in Types \cup {Omitted} : TopLevel /\ RemoveAllListeners(t)
    \/ \E t \in Types, a \in ArgChoices : TopLevel /\ Emit(t, a)
    \/ Fire
    \/ FireTypeError
    \/ HandlerReturn
    \/ HandlerThrow
    \/ EachDone

SpecNL == Init /\ [][NextNL]_vars

\* Registrations up to the default limit and past it, no dispatch.
NextWarn ==
    \/ \E t \in Types : nextId <= MaxWarnSubs /\ On(t, "h1")
    \/ \E t \in Types : RemoveAllListeners(t)
    \/ FireTypeError

SpecWarn == Init /\ [][NextWarn]_vars

\* Registrations under limits set with setMaxListeners, no dispatch.
NextLimit ==
    \/ \E t \in Types, h \in Handlers : nextId <= MaxLimitSubs /\ On(t, h)
    \/ \E t \in Types, h \in Handlers : RemoveListener(t, h)
    \/ \E t \in Types : RemoveAllListeners(t)
    \/ \E n \in MaxChoices : SetMaxListeners(n)
    \/ FireTypeError

SpecLimit == Init /\ [][NextLimit]_vars

\* ------------------------------------------------------------ properties
\* The Events whose listeners the current top-level call has invoked, in order.
Invoked == [k \in 1..Len(log) |-> log[k].ev]

IdsOf(items) == {items[k].id : k \in 1..Len(items)}

\* A top-level call of the method op is over and returned to the program.
Returned(op) == TopLevel /\ top.op = op /\ top.outcome = "returned"

\* The top-level call was an emit over two subscriptions with different
\* listeners, the first one persistent, and the only registry call a listener
\* made during it is the first listener removing itself.
SelfRemovalCase ==
    /\ Returned("emit")
    /\ Len(top.before) = 2
    /\ ~top.before[1].once
    /\ top.before[1].listener # top.before[2].listener
    /\ nested = <<[by |-> top.before[1].id, op |-> "removeListener",
                   type |-> top.type, listener |-> top.before[1].listener,
                   once |-> FALSE]>>

\* C1: when a persistent listener h removes itself from inside its own
\* invocation while emit dispatches over [h, h2], h2 is not skipped: h and
\* h2 are each invoked exactly once in that emit.
C1_SelfRemovalDoesNotSkip == SelfRemovalCase => Invoked = top.before

\* C2: after removeListener(type, handler) returns, no subscription with
\* that handler remains in the type's sequence.
C2_RemovesEveryMatch ==
    Returned("removeListener") =>
        \A k \in 1..Len(ItemsOf(_listeners, top.type)) :
            ItemsOf(_listeners, top.type)[k].listener # top.listener

\* How many times the current top-level call has invoked the listener of ev.
Times(ev) == Cardinality({k \in 1..Len(log) : log[k].ev.id = ev.id})

\* No listener is registered twice in items.
DistinctListeners(items) ==
    \A j, k \in 1..Len(items) : j # k => items[j].listener # items[k].listener

\* A top-level emit returned and no listener called the registry during it.
PlainEmit == Returned("emit") /\ nested = <<>>

\* C3: once(type, h) followed by emit(type): the one-shot subscription is
\* invoked exactly once by the first emit and is no longer registered when
\* that emit has returned, so a second emit cannot invoke it.
C3_OnceFiresOnce ==
    (PlainEmit /\ DistinctListeners(top.before)) =>
        \A k \in 1..Len(top.before) :
            top.before[k].once =>
                /\ Times(top.before[k]) = 1
                /\ top.before[k].id \notin IdsOf(ItemsOf(_listeners, top.type))

C3_Witness ==
    /\ PlainEmit
    /\ Len(top.before) = 2
    /\ DistinctListeners(top.before)
    /\ top.before[1].once
    /\ Len(log) = 2

\* The last listener the top-level emit invoked is a one-shot one that
\* threw, and the exception left emit.
OnceThrewCase ==
    /\ TopLevel /\ top.op = "emit" /\ top.outcome = "threw"
    /\ nested = <<>>
    /\ Len(log) > 0
    /\ log[Len(log)].ev.once
    /\ log[Len(log)].end = "threw"

\* C4: a one-shot subscription whose handler throws is still removed: after
\* emit has propagated the exception it is no longer registered.
C4_ThrowingOnceIsRemoved ==
    OnceThrewCase =>
        log[Len(log)].ev.id \notin IdsOf(ItemsOf(_listeners, top.type))

Persistent(items) == \A k \in 1..Len(items) : ~items[k].once

InRegistrationOrder(items) ==
    \A j, k \in 1..Len(items) : j < k => items[j].id < items[k].id

\* C5: with handlers that do not call the registry, emit(type) invokes the
\* handlers of the subscriptions registered with on, each once, in the order
\* in which they were registered.
C5_RegistrationOrder ==
    (PlainEmit /\ Persistent(top.before)) =>
        /\ Invoked = top.before
        /\ InRegistrationOrder(Invoked)

C5_Witness ==
    /\ PlainEmit
    /\ Persistent(top.before)
    /\ Len(top.before) >= 2
    /\ top.before[1].listener # top.before[2].listener
    /\ Len(log) = Len(top.before)

\* C6: registering a listener fn for "x" with on while a listener is
\* subscribed to "newListener" invokes that listener, during the
\* registration call, with the arguments ("x", fn, scope, false).
C6_NewListenerIsNotified ==
    (/\ TopLevel /\ top.op = "addListener"
     /\ top.type = "x" /\ ~top.once
     /\ Has(_listeners, "newListener")) =>
        \E k \in 1..Len(log) :
            /\ log[k].ev.type = "newListener"
            /\ log[k].args = <<"x", top.listener, "scope", "false">>

\* C7: on("newListener", h) or once("newListener", h) does not invoke h
\* during that registration call.
C7_NotNotifiedOfItself ==
    (top.op = "addListener" /\ top.type = "newListener") =>
        \A k \in 1..Len(log) : log[k].ev.id # top.sub

C7_Witness ==
    /\ TopLevel /\ top.op = "addListener" /\ top.type = "newListener"
    /\ top.outcome = "threw"
    /\ top.sub \in IdsOf(ItemsOf(_listeners, "newListener"))

\* C8: no type key maps to an empty sequence, so listeners(type) is the
\* absent result for every type that has no subscription.
C8_NoEmptySequence ==
    \A t \in Types :
        LET r == listeners(_listeners, t) IN r.found => Len(r.items) > 0

C8_Witness ==
    /\ Returned("emit")
    /\ Len(top.before) > 0
    /\ ~listeners(_listeners, top.type).found

\* C9: when a handler throws during emit(type), the exception reaches the
\* caller of emit and no subscription registered after the thrower is
\* invoked in that emit.
C9_ThrowStopsDispatch ==
    \A k \in 1..Len(log) :
        (top.op = "emit" /\ nested = <<>> /\ log[k].end = "threw") =>
            /\ TopLevel /\ top.outcome = "threw"
            /\ k = Len(log)
            /\ \A m, n \in 1..Len(top.before) :
                   (top.before[m].id = log[k].ev.id /\ m < n) =>
                       top.before[n].id \notin IdsOf(Invoked)

C9_Witness ==
    /\ TopLevel /\ top.op = "emit" /\ top.outcome = "threw"
    /\ Len(top.before) = 2
    /\ Len(log) = 1
    /\ log[1].ev = top.before[1]
    /\ log[1].end = "threw"

\* C10: with the default limit of 10, a type's sequence has had exactly one
\* warning, issued by the 11th registration, once it holds more than 10
\* subscriptions, and none before.
C10_OneWarningAtEleventh ==
    TopLevel =>
        \A t \in DOMAIN _listeners :
            /\ _listeners[t].warns =
                   (IF Len(_listeners[t].items) > DefaultMaxListeners THEN 1 ELSE 0)
            /\ _listeners[t].warns = 1 =>
                   _listeners[t].warnLen = DefaultMaxListeners + 1

\* The console.warn calls made so far for the array of type t in registry L.
WarnsOf(L, t) == IF Has(L, t) THEN L[t].warns ELSE 0

\* C11: while the limit is 0 (after setMaxListeners(0) and until it is set
\* again), no step issues a warning, whatever the number of listeners.
C11_ZeroLimitNeverWarns ==
    [][_maxListeners = 0 =>
          \A t \in Types : WarnsOf(_listeners', t) <= WarnsOf(_listeners, t)]_vars

C11_Witness ==
    /\ Returned("addListener")
    /\ _maxListeners = 0
    /\ Len(top.before) >= 2
    /\ Len(ItemsOf(_listeners, top.type)) = Len(top.before) + 1
    /\ WarnsOf(_listeners, top.type) = 0

\* The top-level call was removeAllListeners() without a type and has returned.
ClearedAll == Returned("removeAllListeners") /\ ~Truthy(top.type)

\* The types that had a subscription when the current top-level call was made.
TypesBefore == {top.before[k].type : k \in 1..Len(top.before)}

\* C12: removeAllListeners() without a type leaves a registry with no entry
\* for any type, and an emit that follows on a type that was registered
\* returns without invoking any listener.
C12_RemoveAllClearsEveryType ==
    [][/\ ClearedAll' => _listeners' = EmptyRegistry
       /\ (ClearedAll /\ top'.op = "emit" /\ top'.type \in TypesBefore)
              => (Returned("emit")' /\ log' = <<>>)]_vars

C12_Witness ==
    /\ ClearedAll
    /\ TypesBefore = Types
    /\ Len(top.before) >= 3
    /\ \A t \in Types : listeners(_listeners, t).found = FALSE

\* The top-level call in record c is a removeListener whose listener no
\* subscription of its type had when the call was made.
Unmatched(c) ==
    /\ c.op = "removeListener"
    /\ \A k \in 1..Len(c.before) : c.before[k].listener # c.listener

\* C13: removeListener(type, handler) returns without an error and leaves
\* the whole registry (arrays, their order, their warned flags) and the
\* limit unchanged when the type has no array or no subscription of the
\* type has that handler.
C13_UnmatchedRemoveIsNoOp ==
    [][(TopLevel /\ Unmatched(top'))
          => /\ _listeners' = _listeners
             /\ _maxListeners' = _maxListeners
             /\ Returned("removeListener")']_vars

C13_Witness ==
    /\ Returned("removeListener")
    /\ Unmatched(top)
    /\ Len(top.before) >= 3
    /\ ItemsOf(_listeners, top.type) = top.before
    /\ _listeners[top.type].warned
    /\ _maxListeners = 2

\* The only calls the listeners made during the current top-level call are
\* removals.
OnlyRemovals ==
    \A k \in 1..Len(nested) : nested[k].op \in {"removeListener", "removeAllListeners"}

\* C14: during one emit whose listeners only remove listeners, no entry is
\* invoked twice and none is skipped: every subscription that was in the
\* type's sequence at call time and was never removed (it is still there
\* when emit returns) has been invoked exactly once.
C14_NoSkipNoDoubleInvoke ==
    (Returned("emit") /\ OnlyRemovals) =>
        \A k \in 1..Len(top.before) :
            /\ Times(top.before[k]) <= 1
            /\ top.before[k].id \in IdsOf(ItemsOf(_listeners, top.type))
                   => Times(top.before[k]) = 1

\* C15: in an emit whose listeners call nothing, a one-shot subscription
\* whose listener has returned is out of the type's sequence, and its
\* removal makes the dispatch skip nothing: every subscription that is
\* still in the sequence when emit returns has been invoked.
C15_OnceRemovedWithoutSkip ==
    PlainEmit =>
        /\ \A k \in 1..Len(log) :
               log[k].ev.once => log[k].ev.id \notin IdsOf(ItemsOf(_listeners, top.type))
        /\ \A k \in 1..Len(top.before) :
               top.before[k].id \in IdsOf(ItemsOf(_listeners, top.type))
                   => Times(top.before[k]) >= 1

\* The listeners' only calls during the current top-level call are
\* registrations on the type being dispatched.
OnlyAdditions ==
    /\ nested # <<>>
    /\ \A k \in 1..Len(nested) :
           nested[k].op = "addListener" /\ nested[k].type = top.type

\* The ids of the subscriptions those registrations created.
AddedIds == (nextId - Len(nested))..(nextId - 1)

\* C16: a listener registered on the type by a handler while emit(type) is
\* in progress is invoked later in that same emit call.
C16_AddedDuringDispatchIsInvoked ==
    (Returned("emit") /\ OnlyAdditions) =>
        \A id \in AddedIds : \E k \in 1..Len(log) : log[k].ev.id = id

\* C17: in every reachable state each type's sequence holds its
\* subscriptions in the order in which they were registered (ids are
\* given in registration order).
C17_OrderPreserved ==
    \A t \in DOMAIN _listeners : InRegistrationOrder(_listeners[t].items)

\* An emit has returned in which a one-shot subscription removed itself
\* from between two others.
C17_Witness ==
    /\ Returned("emit")
    /\ Len(top.before) = 3
    /\ top.before[2].once
    /\ Times(top.before[2]) = 1
    /\ ItemsOf(_listeners, top.type) = <<top.before[1], top.before[3]>>

\* A top-level emit is between two callbacks of its eachListener loop.
InLoop == top.op = "emit" /\ Len(stack) = 1 /\ stack[1].kind = "each"

\* The entries of the loop's array from its index on.
Ahead ==
    LET n == Len(ArrayOf(_listeners, stack[1]))
    IN  IF n > stack[1].i THEN n - stack[1].i ELSE 0

\* C18: an emit whose listeners return and only remove listeners
\* terminates: every callback brings the loop closer to its end, so the
\* invocations made plus the entries still ahead of the index never exceed
\* the length of the sequence at call time.
C18_RemovalsCannotLoopForever ==
    (InLoop /\ OnlyRemovals) => Len(log) + Ahead <= Len(top.before)

\* C19: the listener of a one-shot subscription is invoked at most once
\* over the life of the subscription, whatever the operations, re-entrant
\* emits from the listener included.
C19_OnceInvokedAtMostOnce == fired.again = {}

\* C20: a subscription that has been removed is never invoked: whenever
\* a listener is invoked, its subscription is in its type's sequence at
\* that moment, also in an emit that was dispatching when the removal was
\* made.
C20_NoInvocationAfterRemoval ==
    [][Len(log') > Len(log) =>
          log'[Len(log')].ev.id
              \in IdsOf(ItemsOf(_listeners, log'[Len(log')].ev.type))]_vars

====
